---- MODULE Spec2Model ----
(***************************************************************************)
(* The theme switcher of assets/js/App.js (first definition of App, the    *)
(* variant that persists the theme in localStorage).                       *)
(*                                                                         *)
(* JavaScript values are modelled as TLA+ strings: a JS string is the      *)
(* string itself ("light"), JS null is JSNull and JS undefined is          *)
(* JSUndefined.  The content of localStorage under the key 'theme' is the  *)
(* raw text of the item ("\"dark\"" is the six characters "dark" in        *)
(* quotes), or NoItem when the key is absent.                              *)
(***************************************************************************)
EXTENDS Integers, Sequences, FiniteSets, TLC

\* ------------------------------------------------------------ bounds
MaxClicks == 3
MaxInits == 2
MaxCalls == 2

\* ------------------------------------------------------------ JS values
JSNull == "null"
JSUndefined == "undefined"

\* var THEMES = ['light', 'dark']
THEMES == <<"light", "dark">>

\* Strings the model uses as JS string values.
Strings == {"light", "dark", "blue"}

\* Every JS value the model passes around.
Values == Strings \cup {JSNull, JSUndefined}

\* ------------------------------------------------------------ localStorage
\* localStorage.getItem(key) returns null for an absent key.
NoItem == "<no item>"

\* JSON.stringify(value) for the values of the model.
JSONstringify(value) ==
    IF value = JSNull THEN "null"
    ELSE IF value = JSUndefined THEN JSUndefined
    ELSE "\"" \o value \o "\""

\* Item texts that are not JSON: JSON.parse throws a SyntaxError on them.
Unparseable == {"dark"}

\* The raw contents the item 'theme' may hold.
RawItems == {NoItem} \cup {JSONstringify(s) : s \in Strings} \cup Unparseable

\* JSON.parse(text): [threw, value].  The argument is converted to a string
\* first, so the null that getItem returns for an absent key parses as the
\* JSON literal null.
JSONparse(raw) ==
    LET text == IF raw = NoItem THEN "null" ELSE raw
    IN  IF text = "null" THEN [threw |-> FALSE, value |-> JSNull]
        ELSE IF \E s \in Strings : text = "\"" \o s \o "\""
        THEN [threw |-> FALSE,
              value |-> CHOOSE s \in Strings : text = "\"" \o s \o "\""]
        ELSE [threw |-> TRUE, value |-> JSUndefined]

\* The modes of the browser's store: "ok" reads and writes; "quota" reads,
\* and a write may throw; "unavailable" throws on every access.
StoreModes == {"ok", "quota", "unavailable"}

\* ls.get without JSON.parse: the raw text is returned as it is stored.
lsGet_NoParse(raw, mode) ==
    IF mode = "unavailable"
    THEN [threw |-> TRUE, value |-> JSUndefined]
    ELSE [threw |-> FALSE, value |-> IF raw = NoItem THEN JSNull ELSE raw]

\* ls.get(key): [threw, value]
lsGet(raw, mode) ==
    IF mode = "unavailable"
    THEN [threw |-> TRUE, value |-> JSUndefined]
    ELSE JSONparse(raw)

\* What an operation that never calls setItem is logged to have written.
NoWrite == "<no write>"

\* ls.set without JSON.stringify: the value is stored as it is.
lsSet_NoStringify(raw, value, writeOk) ==
    IF writeOk
    THEN [item |-> value, ret |-> "true", wrote |-> value, threw |-> FALSE]
    ELSE [item |-> raw, ret |-> "false", wrote |-> value, threw |-> FALSE]

\* ls.set without the try/catch: the exception of setItem leaves ls.set.
lsSet_NoCatch(raw, value, writeOk) ==
    IF writeOk
    THEN [item |-> JSONstringify(value), ret |-> "true",
          wrote |-> JSONstringify(value), threw |-> FALSE]
    ELSE [item |-> raw, ret |-> JSUndefined,
          wrote |-> JSONstringify(value), threw |-> TRUE]

\* ls.set with return true after the try/catch: the failure is not reported.
lsSet_ReturnsTrue(raw, value, writeOk) ==
    IF writeOk
    THEN [item |-> JSONstringify(value), ret |-> "true",
          wrote |-> JSONstringify(value), threw |-> FALSE]
    ELSE [item |-> raw, ret |-> "true",
          wrote |-> JSONstringify(value), threw |-> FALSE]

\* ls.set(key, value): [item, ret, wrote, threw]; writeOk says whether
\* setItem succeeds, wrote is the text handed to it.  The exception of a
\* failing setItem is caught, so ls.set itself never throws.
lsSet(raw, value, writeOk) ==
    IF writeOk
    THEN [item |-> JSONstringify(value), ret |-> "true",
          wrote |-> JSONstringify(value), threw |-> FALSE]
    ELSE [item |-> raw, ret |-> "false",
          wrote |-> JSONstringify(value), threw |-> FALSE]

\* ------------------------------------------------------------ themes
\* THEMES.indexOf(theme)
indexOf(theme) ==
    IF \E i \in DOMAIN THEMES : THEMES[i] = theme
    THEN (CHOOSE i \in DOMAIN THEMES :
             /\ THEMES[i] = theme
             /\ \A j \in DOMAIN THEMES : THEMES[j] = theme => i <= j) - 1
    ELSE -1

isTheme(theme) == indexOf(theme) # -1

\* find with === for !==: the current theme is found again.
toggleCurrentTheme_Same(current) ==
    IF \E i \in DOMAIN THEMES : THEMES[i] = current THEN current ELSE JSUndefined

\* find with a predicate that is always true: the first theme.
toggleCurrentTheme_First(current) == THEMES[1]

\* The last member of THEMES that differs, where find returns the first.
toggleCurrentTheme_Last(current) ==
    IF \E i \in DOMAIN THEMES : THEMES[i] # current
    THEN LET i == CHOOSE k \in DOMAIN THEMES :
                     /\ THEMES[k] # current
                     /\ \A j \in DOMAIN THEMES : THEMES[j] # current => k >= j
         IN  THEMES[i]
    ELSE JSUndefined

\* THEMES.find(theme => theme !== CURRENT_THEME)
toggleCurrentTheme(current) ==
    IF \E i \in DOMAIN THEMES : THEMES[i] # current
    THEN LET i == CHOOSE k \in DOMAIN THEMES :
                     /\ THEMES[k] # current
                     /\ \A j \in DOMAIN THEMES : THEMES[j] # current => k <= j
         IN  THEMES[i]
    ELSE JSUndefined

\* ------------------------------------------------------------ DOM
bodyToken(theme) == "theme--" \o theme
switchToken(theme) == "theme__switch--" \o theme

BodyTokens == {bodyToken(THEMES[i]) : i \in DOMAIN THEMES}
SwitchTokens == {switchToken(THEMES[i]) : i \in DOMAIN THEMES}

\* A class of the page that is no theme token, on each element.
BodyOther == "page"
SwitchOther == "theme__switch"

\* applyLayout without the forEach that removes the tokens.
applyLayout_AddOnly(theme, body, toggle, present) ==
    IF ~isTheme(theme)
    THEN [body |-> body, toggle |-> toggle, threw |-> FALSE]
    ELSE IF ~present
    THEN [body |-> body \cup {bodyToken(theme)}, toggle |-> toggle, threw |-> TRUE]
    ELSE [body |-> body \cup {bodyToken(theme)},
          toggle |-> toggle \cup {switchToken(theme)},
          threw |-> FALSE]

\* applyLayout with classList.toggle for remove and add: a token that is
\* present is taken away.
applyLayout_ToggleClass(theme, body, toggle, present) ==
    IF ~isTheme(theme)
    THEN [body |-> body, toggle |-> toggle, threw |-> FALSE]
    ELSE IF ~present
    THEN [body |-> body \ {bodyToken(THEMES[1])}, toggle |-> toggle, threw |-> TRUE]
    ELSE [body |-> IF bodyToken(theme) \in body
                   THEN body \ BodyTokens
                   ELSE (body \ BodyTokens) \cup {bodyToken(theme)},
          toggle |-> IF switchToken(theme) \in toggle
                     THEN toggle \ SwitchTokens
                     ELSE (toggle \ SwitchTokens) \cup {switchToken(theme)},
          threw |-> FALSE]

\* applyLayout without the isTheme guard.
applyLayout_NoGuard(theme, body, toggle, present) ==
    IF ~present
    THEN [body |-> body \ {bodyToken(THEMES[1])}, toggle |-> toggle, threw |-> TRUE]
    ELSE [body |-> (body \ BodyTokens) \cup {bodyToken(theme)},
          toggle |-> (toggle \ SwitchTokens) \cup {switchToken(theme)},
          threw |-> FALSE]

\* applyLayout that leaves the toggle control alone.
applyLayout_BodyOnly(theme, body, toggle, present) ==
    IF ~isTheme(theme)
    THEN [body |-> body, toggle |-> toggle, threw |-> FALSE]
    ELSE [body |-> (body \ BodyTokens) \cup {bodyToken(theme)},
          toggle |-> toggle, threw |-> FALSE]

\* applyLayout that assigns className where the code uses classList: the
\* classes that are no theme token are lost.
applyLayout_ResetClass(theme, body, toggle, present) ==
    IF ~isTheme(theme)
    THEN [body |-> body, toggle |-> toggle, threw |-> FALSE]
    ELSE IF ~present
    THEN [body |-> {bodyToken(theme)}, toggle |-> toggle, threw |-> TRUE]
    ELSE [body |-> {bodyToken(theme)}, toggle |-> {switchToken(theme)},
          threw |-> FALSE]

\* applyLayout(theme) on the class lists of document.body and of
\* #theme-toggle: [body, toggle, threw].  Without the element,
\* getElementById returns null and the first classList access throws, after
\* the first token has been removed from the body.
applyLayout(theme, body, toggle, present) ==
    IF ~isTheme(theme)
    THEN [body |-> body, toggle |-> toggle, threw |-> FALSE]
    ELSE IF ~present
    THEN [body |-> body \ {bodyToken(THEMES[1])}, toggle |-> toggle, threw |-> TRUE]
    ELSE [body |-> (body \ BodyTokens) \cup {bodyToken(theme)},
          toggle |-> (toggle \ SwitchTokens) \cup {switchToken(theme)},
          threw |-> FALSE]

\* saveTheme without the isTheme guard.
saveTheme_NoGuard(theme, raw, writeOk) == lsSet(raw, theme, writeOk)

\* saveTheme(theme): [item, ret, wrote, threw]
saveTheme(theme, raw, writeOk) ==
    IF isTheme(theme)
    THEN lsSet(raw, theme, writeOk)
    ELSE [item |-> raw, ret |-> JSUndefined, wrote |-> NoWrite, threw |-> FALSE]

\* What a switchTheme that never reached saveTheme is logged to have shown
\* when it called it.
Unsaved == [theme |-> "<not saved>"]

\* switchTheme that applies the layout only when the theme was saved.
switchTheme_ApplyIfSaved(st, theme, present, writeOk) ==
    LET sav == saveTheme(theme, st.item, writeOk)
        lay == IF sav.ret = "true"
               THEN applyLayout(theme, st.body, st.toggle, present)
               ELSE [body |-> st.body, toggle |-> st.toggle, threw |-> FALSE]
    IN  [theme |-> theme, body |-> lay.body, toggle |-> lay.toggle,
         item |-> sav.item, threw |-> lay.threw,
         wrote |-> sav.wrote, ret |-> sav.ret,
         seen |-> [theme |-> theme, body |-> st.body, toggle |-> st.toggle]]

\* switchTheme with saveTheme called before applyLayout.
switchTheme_SaveFirst(st, theme, present, writeOk) ==
    LET sav == saveTheme(theme, st.item, writeOk)
        lay == applyLayout(theme, st.body, st.toggle, present)
    IN  [theme |-> theme, body |-> lay.body, toggle |-> lay.toggle,
         item |-> sav.item, threw |-> lay.threw,
         wrote |-> sav.wrote, ret |-> sav.ret,
         seen |-> [theme |-> theme, body |-> st.body, toggle |-> st.toggle]]

\* switchTheme(theme): CURRENT_THEME = theme; applyLayout(CURRENT_THEME);
\* saveTheme(CURRENT_THEME).  st holds the body and toggle class lists and
\* the item; the result adds the new CURRENT_THEME, whether the call threw,
\* what saveTheme wrote and returned, and seen: CURRENT_THEME and the class
\* lists as they are when saveTheme is called.
switchTheme(st, theme, present, writeOk) ==
    LET lay == applyLayout(theme, st.body, st.toggle, present)
        sav == saveTheme(theme, st.item, writeOk)
    IN  IF lay.threw
        THEN [theme |-> theme, body |-> lay.body, toggle |-> lay.toggle,
              item |-> st.item, threw |-> TRUE,
              wrote |-> NoWrite, ret |-> JSUndefined, seen |-> Unsaved]
        ELSE [theme |-> theme, body |-> lay.body, toggle |-> lay.toggle,
              item |-> sav.item, threw |-> sav.threw,
              wrote |-> sav.wrote, ret |-> sav.ret,
              seen |-> [theme |-> theme, body |-> lay.body,
                        toggle |-> lay.toggle]]

\* ------------------------------------------------------------ state
VARIABLES
    CURRENT_THEME,  \* var CURRENT_THEME
    listeners,      \* number of click listeners bound to #theme-toggle
    body,           \* document.body.classList
    toggle,         \* document.getElementById('theme-toggle').classList
    item,           \* raw content of localStorage under 'theme'
    storeMode,      \* how the store behaves on this device
    hasToggle,      \* whether the document holds #theme-toggle
    inits,          \* calls of App.init() in this page load
    clicks,         \* clicks on the toggle control in this page load
    log,            \* what init and the click listeners did in this page load
    last,           \* the latest of these operations, in detail
    prev,           \* what the previous page load left behind
    other           \* a second App beside this one, where there is one

vars == <<CURRENT_THEME, listeners, body, toggle, item, storeMode, hasToggle,
          inits, clicks, log, last, prev, other>>

\* The outcomes a write may have in a mode (TRUE: setItem succeeds).
WriteOutcomes(mode) ==
    IF mode = "ok" THEN {TRUE}
    ELSE IF mode = "quota" THEN {TRUE, FALSE}
    ELSE {FALSE}

\* The class lists a page may be served with.
ServedBody == {c \cup {BodyOther} : c \in SUBSET BodyTokens}
ServedToggle(present) ==
    IF present THEN {c \cup {SwitchOther} : c \in SUBSET SwitchTokens} ELSE {{}}

\* The log entry of a step that did not read the store.
NotRead == "<not read>"

\* One entry of the log.  op: "init" for App.init(), "toggle" for one run of
\* the click listener; threw: whether it threw; read: the raw item it read;
\* theme: CURRENT_THEME when it ended.
Entry(op, threw, read, theme) ==
    [op |-> op, threw |-> threw, read |-> read, theme |-> theme]

\* The latest operation in detail.  stale: whether the item differed from the JSON text of CURRENT_THEME when it
\* began; wrote, ret: the text saveTheme handed to setItem and what saveTheme
\* returned; seen: what the page showed when saveTheme was called.
Detail(op, threw, read, was, theme, wrote, ret, seen) ==
    [op |-> op, threw |-> threw, read |-> read,
     stale |-> (was.item # JSONstringify(was.theme)),
     theme |-> theme, wrote |-> wrote, ret |-> ret, seen |-> seen]

\* No operation has run in this page load.
NoOp == [op |-> "none"]

\* Another party has changed the item since the latest operation.
Foreign == [op |-> "storeChange"]

\* Nothing is known of the previous page load: there was none, it saw no
\* click, another party changed the item since, or this load is past its
\* first init().
NoPrev == [theme |-> "<none>"]

\* The page load at hand has seen a click and the item is as its latest
\* operation left it: that operation is a run of the click listener, or an
\* init() that found the item holding the JSON text of CURRENT_THEME.
Undisturbed ==
    /\ clicks > 0
    /\ \/ last.op = "toggle" /\ ~last.threw
       \/ last.op = "init" /\ ~last.threw /\ ~last.stale

\* There is no second App.
NoOther == [kind |-> "none"]

\* The script has just been evaluated on a freshly served page.
Init ==
    /\ CURRENT_THEME = "light"
    /\ listeners = 0
    /\ hasToggle \in BOOLEAN
    /\ body \in ServedBody
    /\ toggle \in ServedToggle(hasToggle)
    /\ item \in RawItems
    /\ storeMode \in StoreModes
    /\ inits = 0
    /\ clicks = 0
    /\ log = <<>>
    /\ last = NoOp
    /\ prev = NoPrev
    /\ other = NoOther

\* init() that reads the store before it binds the listener:
\* var theme = ls.get('theme'); bind(); switchTheme(theme).
AppInit_ReadFirst ==
    /\ inits < MaxInits
    /\ inits' = inits + 1
    /\ prev' = IF inits = 0 THEN prev ELSE NoPrev
    /\ UNCHANGED <<storeMode, hasToggle, clicks>>
    /\ LET was == [item |-> item, theme |-> CURRENT_THEME]
       IN  IF ~hasToggle
           THEN \* bind() throws
                /\ log' = Append(log, Entry("init", TRUE, NotRead, CURRENT_THEME))
                /\ last' = Detail("init", TRUE, NotRead, was,
                                  CURRENT_THEME, NoWrite, JSUndefined, Unsaved)
                /\ UNCHANGED <<CURRENT_THEME, listeners, body, toggle, item>>
           ELSE LET got == lsGet(item, storeMode)
                IN  /\ listeners' = IF got.threw THEN listeners ELSE listeners + 1
                    /\ IF got.threw
                       THEN /\ log' = Append(log, Entry("init", TRUE, item, CURRENT_THEME))
                            /\ last' = Detail("init", TRUE, item, was,
                                              CURRENT_THEME, NoWrite, JSUndefined, Unsaved)
                            /\ UNCHANGED <<CURRENT_THEME, body, toggle, item>>
                       ELSE \E writeOk \in WriteOutcomes(storeMode) :
                              LET st == [body |-> body, toggle |-> toggle, item |-> item]
                                  nx == switchTheme(st, got.value, hasToggle, writeOk)
                              IN  /\ CURRENT_THEME' = nx.theme
                                  /\ body' = nx.body
                                  /\ toggle' = nx.toggle
                                  /\ item' = nx.item
                                  /\ log' = Append(log, Entry("init", nx.threw, item,
                                                              nx.theme))
                                  /\ last' = Detail("init", nx.threw, item, was,
                                                    nx.theme, nx.wrote, nx.ret, nx.seen)

\* App.init(): bind(), then switchTheme(ls.get('theme')).  What the call
\* does to this App, its document and the store.
AppInitStep ==
    /\ inits < MaxInits
    /\ inits' = inits + 1
    /\ prev' = IF inits = 0 THEN prev ELSE NoPrev
    /\ UNCHANGED <<storeMode, hasToggle, clicks>>
    /\ LET was == [item |-> item, theme |-> CURRENT_THEME]
       IN  IF ~hasToggle
           THEN \* bind() throws: getElementById returns null
                /\ log' = Append(log, Entry("init", TRUE, NotRead, CURRENT_THEME))
                /\ last' = Detail("init", TRUE, NotRead, was,
                                  CURRENT_THEME, NoWrite, JSUndefined, Unsaved)
                /\ UNCHANGED <<CURRENT_THEME, listeners, body, toggle, item>>
           ELSE LET got == lsGet(item, storeMode)
                IN  /\ listeners' = listeners + 1
                    /\ IF got.threw
                       THEN /\ log' = Append(log, Entry("init", TRUE, item, CURRENT_THEME))
                            /\ last' = Detail("init", TRUE, item, was,
                                              CURRENT_THEME, NoWrite, JSUndefined, Unsaved)
                            /\ UNCHANGED <<CURRENT_THEME, body, toggle, item>>
                       ELSE \E writeOk \in WriteOutcomes(storeMode) :
                              LET st == [body |-> body, toggle |-> toggle, item |-> item]
                                  nx == switchTheme(st, got.value, hasToggle, writeOk)
                              IN  /\ CURRENT_THEME' = nx.theme
                                  /\ body' = nx.body
                                  /\ toggle' = nx.toggle
                                  /\ item' = nx.item
                                  /\ log' = Append(log, Entry("init", nx.threw, item,
                                                              nx.theme))
                                  /\ last' = Detail("init", nx.threw, item, was,
                                                    nx.theme, nx.wrote, nx.ret, nx.seen)

\* App.init() on a page of its own.
AppInit == AppInitStep /\ UNCHANGED other

\* Click listeners that read the store: each run toggles from the theme the
\* item holds instead of from CURRENT_THEME.
RECURSIVE RunListeners_Reread(_, _, _, _)
RunListeners_Reread(st, k, present, oks) ==
    IF k = 0 THEN st
    ELSE LET before == RunListeners_Reread(st, k - 1, present, oks)
             got == JSONparse(before.item)
             nx == switchTheme([body |-> before.body, toggle |-> before.toggle,
                                item |-> before.item],
                               toggleCurrentTheme(got.value), present, oks[k])
         IN  [theme |-> nx.theme, body |-> nx.body, toggle |-> nx.toggle,
              item |-> nx.item,
              log |-> Append(before.log,
                             Entry("toggle", nx.threw, before.item, nx.theme)),
              last |-> Detail("toggle", nx.threw, before.item,
                              [item |-> before.item, theme |-> before.theme],
                              nx.theme, nx.wrote, nx.ret, nx.seen)]

\* The k click listeners bound to the toggle control run one after the
\* other, each switchTheme(toggleCurrentTheme()); oks[i] is the outcome of
\* the write of the i-th.  st holds CURRENT_THEME, the class lists, the item
\* the log and the detail of the latest operation.
RECURSIVE RunListeners(_, _, _, _)
RunListeners(st, k, present, oks) ==
    IF k = 0 THEN st
    ELSE LET before == RunListeners(st, k - 1, present, oks)
             nx == switchTheme([body |-> before.body, toggle |-> before.toggle,
                                item |-> before.item],
                               toggleCurrentTheme(before.theme), present, oks[k])
         IN  [theme |-> nx.theme, body |-> nx.body, toggle |-> nx.toggle,
              item |-> nx.item,
              log |-> Append(before.log, Entry("toggle", nx.threw, NotRead, nx.theme)),
              last |-> Detail("toggle", nx.threw, NotRead,
                              [item |-> before.item, theme |-> before.theme],
                              nx.theme, nx.wrote, nx.ret, nx.seen)]

\* A click on #theme-toggle.  What it does to this App, its document and the
\* store.
ClickStep ==
    /\ hasToggle
    /\ listeners > 0
    /\ clicks < MaxClicks
    /\ clicks' = clicks + 1
    /\ prev' = NoPrev
    /\ \E oks \in [1..listeners -> WriteOutcomes(storeMode)] :
         LET st == [theme |-> CURRENT_THEME, body |-> body, toggle |-> toggle,
                    item |-> item, log |-> log, last |-> last]
             nx == RunListeners(st, listeners, hasToggle, oks)
         IN  /\ CURRENT_THEME' = nx.theme
             /\ body' = nx.body
             /\ toggle' = nx.toggle
             /\ item' = nx.item
             /\ log' = nx.log
             /\ last' = nx.last
    /\ UNCHANGED <<listeners, storeMode, hasToggle, inits>>

\* A click on #theme-toggle of a page of its own.
Click == ClickStep /\ UNCHANGED other

\* Another party (another tab, the user clearing site data) changes the item.
StoreChange ==
    /\ storeMode # "unavailable"
    /\ \E raw \in RawItems \ {item} : item' = raw
    /\ last' = Foreign
    /\ prev' = NoPrev
    /\ UNCHANGED <<CURRENT_THEME, listeners, body, toggle, storeMode, hasToggle,
                   inits, clicks, log, other>>

\* A page of the site is loaded (again): the script starts afresh on the
\* served document, the store stays.
PageLoad ==
    /\ CURRENT_THEME' = "light"
    /\ listeners' = 0
    /\ hasToggle' \in BOOLEAN
    /\ body' \in ServedBody
    /\ toggle' \in ServedToggle(hasToggle')
    /\ inits' = 0
    /\ clicks' = 0
    /\ log' = <<>>
    /\ last' = NoOp
    /\ prev' = IF Undisturbed
               THEN [theme |-> CURRENT_THEME, ret |-> last.ret]
               ELSE NoPrev
    /\ UNCHANGED <<item, storeMode, other>>

Next == AppInit \/ Click \/ StoreChange \/ PageLoad

Spec == Init /\ [][Next]_vars

\* ------------------------------------------------------------ applyLayout alone
\* applyLayout called directly, on every class list a page may be served
\* with and with every value of the model as its argument.  last holds the
\* latest call: the argument, whether the call threw, and the class lists
\* before it; log holds the arguments of the calls so far.
InitLayout ==
    /\ CURRENT_THEME = "light"
    /\ listeners = 0
    /\ hasToggle \in BOOLEAN
    /\ body \in ServedBody
    /\ toggle \in ServedToggle(hasToggle)
    /\ item = NoItem
    /\ storeMode = "ok"
    /\ inits = 0
    /\ clicks = 0
    /\ log = <<>>
    /\ last = NoOp
    /\ prev = NoPrev
    /\ other = NoOther

ApplyLayoutCall ==
    /\ Len(log) < MaxCalls
    /\ \E x \in Values :
         LET lay == applyLayout(x, body, toggle, hasToggle)
         IN  /\ body' = lay.body
             /\ toggle' = lay.toggle
             /\ log' = Append(log, x)
             /\ last' = [op |-> "applyLayout", arg |-> x, threw |-> lay.threw,
                         body |-> body, toggle |-> toggle]
    /\ UNCHANGED <<CURRENT_THEME, listeners, item, storeMode, hasToggle, inits,
                   clicks, prev, other>>

NextLayout == ApplyLayoutCall

SpecLayout == InitLayout /\ [][NextLayout]_vars

\* ------------------------------------------------------------ the store alone
\* saveTheme and ls.get called directly, on every content of the item, in
\* every mode of the store and with every value of the model.  log holds the
\* calls so far, last the latest call with the item and CURRENT_THEME before
\* it.
InitStore ==
    /\ CURRENT_THEME \in {THEMES[i] : i \in DOMAIN THEMES}
    /\ listeners = 0
    /\ hasToggle = TRUE
    /\ body = {BodyOther}
    /\ toggle = {SwitchOther}
    /\ item \in RawItems
    /\ storeMode \in StoreModes
    /\ inits = 0
    /\ clicks = 0
    /\ log = <<>>
    /\ last = NoOp
    /\ prev = NoPrev
    /\ other = NoOther

SaveThemeCall ==
    /\ Len(log) < MaxCalls
    /\ \E t \in Values, writeOk \in WriteOutcomes(storeMode) :
         LET sav == saveTheme(t, item, writeOk)
         IN  /\ item' = sav.item
             /\ log' = Append(log, [op |-> "saveTheme", arg |-> t, ok |-> writeOk])
             /\ last' = [op |-> "saveTheme", arg |-> t, ok |-> writeOk,
                         threw |-> sav.threw, ret |-> sav.ret, wrote |-> sav.wrote,
                         item |-> item, theme |-> CURRENT_THEME]
    /\ UNCHANGED <<CURRENT_THEME, listeners, body, toggle, storeMode, hasToggle,
                   inits, clicks, prev, other>>

LsGetCall ==
    /\ Len(log) < MaxCalls
    /\ LET got == lsGet(item, storeMode)
       IN  /\ log' = Append(log, [op |-> "get"])
           /\ last' = [op |-> "get", threw |-> got.threw, value |-> got.value,
                       item |-> item, theme |-> CURRENT_THEME]
    /\ UNCHANGED <<CURRENT_THEME, listeners, body, toggle, item, storeMode,
                   hasToggle, inits, clicks, prev, other>>

NextStore == SaveThemeCall \/ LsGetCall

SpecStore == InitStore /\ [][NextStore]_vars

\* ------------------------------------------------------------ a page served in step
\* The controller on a page that holds the toggle control and is served with
\* the body and the control in step: neither carries a theme token, or both
\* carry the tokens of one theme.  The page is not loaded again.
ServedInStep ==
    {[body |-> {BodyOther}, toggle |-> {SwitchOther}]}
    \cup {[body |-> {BodyOther, bodyToken(THEMES[i])},
           toggle |-> {SwitchOther, switchToken(THEMES[i])}] : i \in DOMAIN THEMES}

InitInStep ==
    /\ Init
    /\ hasToggle
    /\ [body |-> body, toggle |-> toggle] \in ServedInStep

NextInStep == AppInit \/ Click \/ StoreChange

SpecInStep == InitInStep /\ [][NextInStep]_vars

\* ------------------------------------------------------------ two pages, one store
\* Two pages of the site open side by side: each has its own document and
\* its own App, with its own CURRENT_THEME, and both use the same
\* localStorage, whose writes succeed.  The pages run in threads of their
\* own and share nothing but the store, so what one page does between two
\* calls of the store is one step, and the steps of the two pages interleave
\* in any order: init() is bind() and getItem, then the assignment,
\* applyLayout and setItem; a click is one such step for each listener bound
\* (the assignment, applyLayout and setItem).
\*
\* The first page is held by the variables of the controller (log and last
\* are left alone), the second by other: its CURRENT_THEME (theme), its
\* class lists, its listeners, its calls of init() and its clicks.  run and
\* thisRun say where the second and the first page are inside an operation,
\* and recent names the page of the latest click.

\* The page is between two operations.
Idle == [pc |-> "idle", got |-> JSUndefined, left |-> 0]

\* The first page as a record.
ThisPage ==
    [theme |-> CURRENT_THEME, body |-> body, toggle |-> toggle,
     listeners |-> listeners, inits |-> inits, clicks |-> clicks,
     run |-> other.thisRun]

\* The second page as a record.
OtherPage ==
    [theme |-> other.theme, body |-> other.body, toggle |-> other.toggle,
     listeners |-> other.listeners, inits |-> other.inits,
     clicks |-> other.clicks, run |-> other.run]

\* init() up to and with its getItem: bind(), then ls.get('theme').  When
\* the read throws, init() ends here; when the value read is no theme,
\* switchTheme makes no call of the store and init() ends here as well;
\* otherwise the value waits for the second step.
TabInitRead(p, raw, mode) ==
    LET got == lsGet(raw, mode)
        bound == [p EXCEPT !.inits = @ + 1, !.listeners = @ + 1]
    IN  IF got.threw THEN bound
        ELSE IF ~isTheme(got.value)
        THEN LET nx == switchTheme([body |-> p.body, toggle |-> p.toggle,
                                    item |-> raw], got.value, TRUE, TRUE)
             IN  [bound EXCEPT !.theme = nx.theme, !.body = nx.body,
                               !.toggle = nx.toggle]
        ELSE [bound EXCEPT !.run = [pc |-> "init", got |-> got.value, left |-> 0]]

\* init() from its getItem on: switchTheme of the value read, ending with
\* setItem.  [page, item]
TabInitWrite(p, raw, writeOk) ==
    LET nx == switchTheme([body |-> p.body, toggle |-> p.toggle, item |-> raw],
                          p.run.got, TRUE, writeOk)
    IN  [page |-> [p EXCEPT !.theme = nx.theme, !.body = nx.body,
                            !.toggle = nx.toggle, !.run = Idle],
         item |-> nx.item]

\* One listener of a click: switchTheme(toggleCurrentTheme()), ending with
\* setItem; left is the number of listeners yet to run, this one included.
\* [page, item]
TabListener(p, left, raw, writeOk) ==
    LET nx == switchTheme([body |-> p.body, toggle |-> p.toggle, item |-> raw],
                          toggleCurrentTheme(p.theme), TRUE, writeOk)
    IN  [page |-> [p EXCEPT !.theme = nx.theme, !.body = nx.body,
                            !.toggle = nx.toggle,
                            !.run = IF left = 1 THEN Idle
                                    ELSE [pc |-> "click", got |-> JSUndefined,
                                          left |-> left - 1]],
         item |-> nx.item]

\* The first page becomes p, and the page of the latest click who.
SetThisPage(p, who) ==
    /\ CURRENT_THEME' = p.theme
    /\ body' = p.body
    /\ toggle' = p.toggle
    /\ listeners' = p.listeners
    /\ inits' = p.inits
    /\ clicks' = p.clicks
    /\ other' = [other EXCEPT !.thisRun = p.run, !.recent = who]
    /\ UNCHANGED <<storeMode, hasToggle, log, last, prev>>

\* The second page becomes p, and the page of the latest click who.
SetOtherPage(p, who) ==
    /\ other' = [other EXCEPT !.theme = p.theme, !.body = p.body,
                              !.toggle = p.toggle, !.listeners = p.listeners,
                              !.inits = p.inits, !.clicks = p.clicks,
                              !.run = p.run, !.recent = who]
    /\ UNCHANGED <<CURRENT_THEME, listeners, body, toggle, storeMode, hasToggle,
                   inits, clicks, log, last, prev>>

InitTabs ==
    /\ CURRENT_THEME = "light"
    /\ listeners = 0
    /\ hasToggle = TRUE
    /\ \E served \in ServedInStep :
         body = served.body /\ toggle = served.toggle
    /\ item \in RawItems
    /\ storeMode = "ok"
    /\ inits = 0
    /\ clicks = 0
    /\ log = <<>>
    /\ last = NoOp
    /\ prev = NoPrev
    /\ \E served \in ServedInStep :
         other = [kind |-> "tab", theme |-> "light", body |-> served.body,
                  toggle |-> served.toggle, listeners |-> 0, inits |-> 0,
                  clicks |-> 0, run |-> Idle, thisRun |-> Idle,
                  recent |-> "none"]

\* App.init() on the first page, up to its getItem.
ThisTabInit ==
    /\ other.thisRun.pc = "idle"
    /\ inits < MaxInits
    /\ SetThisPage(TabInitRead(ThisPage, item, storeMode), other.recent)
    /\ UNCHANGED item

\* App.init() on the first page, from its getItem on.
ThisTabRestore ==
    /\ other.thisRun.pc = "init"
    /\ \E writeOk \in WriteOutcomes(storeMode) :
         LET nx == TabInitWrite(ThisPage, item, writeOk)
         IN  SetThisPage(nx.page, other.recent) /\ item' = nx.item

\* A click on the first page: its first listener runs.
ThisTabClick ==
    /\ other.thisRun.pc = "idle"
    /\ listeners > 0
    /\ clicks < MaxClicks
    /\ \E writeOk \in WriteOutcomes(storeMode) :
         LET nx == TabListener([ThisPage EXCEPT !.clicks = @ + 1], listeners,
                               item, writeOk)
         IN  SetThisPage(nx.page, "this") /\ item' = nx.item

\* The next listener of a click on the first page runs.
ThisTabListener ==
    /\ other.thisRun.pc = "click"
    /\ \E writeOk \in WriteOutcomes(storeMode) :
         LET nx == TabListener(ThisPage, other.thisRun.left, item, writeOk)
         IN  SetThisPage(nx.page, other.recent) /\ item' = nx.item

\* App.init() on the second page, up to its getItem.
OtherTabInit ==
    /\ other.run.pc = "idle"
    /\ other.inits < MaxInits
    /\ SetOtherPage(TabInitRead(OtherPage, item, storeMode), other.recent)
    /\ UNCHANGED item

\* App.init() on the second page, from its getItem on.
OtherTabRestore ==
    /\ other.run.pc = "init"
    /\ \E writeOk \in WriteOutcomes(storeMode) :
         LET nx == TabInitWrite(OtherPage, item, writeOk)
         IN  SetOtherPage(nx.page, other.recent) /\ item' = nx.item

\* A click on the second page: its first listener runs.
OtherTabClick ==
    /\ other.run.pc = "idle"
    /\ other.listeners > 0
    /\ other.clicks < MaxClicks
    /\ \E writeOk \in WriteOutcomes(storeMode) :
         LET nx == TabListener([OtherPage EXCEPT !.clicks = @ + 1],
                               other.listeners, item, writeOk)
         IN  SetOtherPage(nx.page, "other") /\ item' = nx.item

\* The next listener of a click on the second page runs.
OtherTabListener ==
    /\ other.run.pc = "click"
    /\ \E writeOk \in WriteOutcomes(storeMode) :
         LET nx == TabListener(OtherPage, other.run.left, item, writeOk)
         IN  SetOtherPage(nx.page, other.recent) /\ item' = nx.item

NextTabs ==
    \/ ThisTabInit \/ ThisTabRestore \/ ThisTabClick \/ ThisTabListener
    \/ OtherTabInit \/ OtherTabRestore \/ OtherTabClick \/ OtherTabListener

SpecTabs == InitTabs /\ [][NextTabs]_vars

\* ------------------------------------------------------------ the App without the store
\* The second definition of App in App.js: toggleCurrentTheme assigns
\* CURRENT_THEME, the click listener calls it and then
\* applyLayout(CURRENT_THEME), and init() only binds the listener.  ls is
\* defined and never called.  This App is held by other: its CURRENT_THEME
\* (theme), whether its document holds #theme-toggle (present), its class
\* lists now and as served, its listeners, its calls of init() and its
\* clicks, its latest operation and whether it threw, and the item as it was
\* when the page was loaded (store).

\* The click listener with applyLayout(CURRENT_THEME) before
\* toggleCurrentTheme().
PlainListener_ApplyFirst(st, present) ==
    LET lay == applyLayout(st.theme, st.body, st.toggle, present)
    IN  [theme |-> toggleCurrentTheme(st.theme), body |-> lay.body,
         toggle |-> lay.toggle, threw |-> lay.threw]

\* One run of the click listener: toggleCurrentTheme();
\* applyLayout(CURRENT_THEME).
PlainListener(st, present) ==
    LET theme == toggleCurrentTheme(st.theme)
        lay == applyLayout(theme, st.body, st.toggle, present)
    IN  [theme |-> theme, body |-> lay.body, toggle |-> lay.toggle,
         threw |-> lay.threw]

\* The k listeners bound to the toggle control run one after the other.
RECURSIVE PlainRunListeners(_, _, _)
PlainRunListeners(st, k, present) ==
    IF k = 0 THEN st
    ELSE PlainListener(PlainRunListeners(st, k - 1, present), present)

\* This App as the script leaves it on each document it may be loaded on,
\* the item holding raw.
PlainPages(raw) ==
    {[kind |-> "plain", theme |-> "light", present |-> p,
      body |-> b, toggle |-> t, served |-> [body |-> b, toggle |-> t],
      store |-> raw, listeners |-> 0, inits |-> 0, clicks |-> 0,
      last |-> "none", threw |-> FALSE]
        : p \in BOOLEAN, b \in ServedBody,
          t \in ServedToggle(TRUE) \cup ServedToggle(FALSE)}

\* init(): bind().  Without #theme-toggle getElementById returns null and
\* addEventListener throws.
PlainInitStep ==
    /\ other.inits < MaxInits
    /\ other' = IF other.present
                THEN [other EXCEPT !.inits = @ + 1, !.listeners = @ + 1,
                                   !.last = "init", !.threw = FALSE]
                ELSE [other EXCEPT !.inits = @ + 1,
                                   !.last = "init", !.threw = TRUE]

\* A click on #theme-toggle.
PlainClickStep ==
    /\ other.present
    /\ other.listeners > 0
    /\ other.clicks < MaxClicks
    /\ LET nx == PlainRunListeners([theme |-> other.theme, body |-> other.body,
                                    toggle |-> other.toggle, threw |-> FALSE],
                                   other.listeners, other.present)
       IN  other' = [other EXCEPT !.clicks = @ + 1, !.theme = nx.theme,
                                  !.body = nx.body, !.toggle = nx.toggle,
                                  !.last = "click", !.threw = nx.threw]

InitPlain ==
    /\ CURRENT_THEME = "light"
    /\ listeners = 0
    /\ hasToggle = TRUE
    /\ body = {BodyOther}
    /\ toggle = {SwitchOther}
    /\ item \in RawItems
    /\ storeMode \in StoreModes
    /\ inits = 0
    /\ clicks = 0
    /\ log = <<>>
    /\ last = NoOp
    /\ prev = NoPrev
    /\ \E page \in PlainPages(item) :
         /\ page.toggle \in ServedToggle(page.present)
         /\ other = page

PlainInit ==
    /\ PlainInitStep
    /\ UNCHANGED <<CURRENT_THEME, listeners, body, toggle, item, storeMode,
                   hasToggle, inits, clicks, log, last, prev>>

PlainClick ==
    /\ PlainClickStep
    /\ UNCHANGED <<CURRENT_THEME, listeners, body, toggle, item, storeMode,
                   hasToggle, inits, clicks, log, last, prev>>

NextPlain == PlainInit \/ PlainClick

SpecPlain == InitPlain /\ [][NextPlain]_vars

\* ------------------------------------------------------------ the two Apps side by side
\* The App with the store and the App without it, each on its own copy of
\* one served page that holds the toggle control, with no item 'theme' in
\* the store: init() is called on both, and every click goes to both.
InitPair ==
    /\ CURRENT_THEME = "light"
    /\ listeners = 0
    /\ hasToggle = TRUE
    /\ body \in ServedBody
    /\ toggle \in ServedToggle(TRUE)
    /\ item = NoItem
    /\ storeMode \in StoreModes
    /\ inits = 0
    /\ clicks = 0
    /\ log = <<>>
    /\ last = NoOp
    /\ prev = NoPrev
    /\ \E page \in PlainPages(NoItem) :
         /\ page.present
         /\ page.body = body /\ page.toggle = toggle
         /\ other = page

PairInit == AppInitStep /\ PlainInitStep

PairClick == ClickStep /\ PlainClickStep

NextPair == PairInit \/ PairClick

SpecPair == InitPair /\ [][NextPair]_vars

\* ------------------------------------------------------------ properties
\* App.init() has returned normally at least once in this page load.
InitCompleted == \E i \in DOMAIN log : log[i].op = "init" /\ ~log[i].threw

\* The theme that is not t.
Other(t) == IF t = "light" THEN "dark" ELSE "light"

\* The theme tokens an element carries.
BodyThemeTokens == body \cap {"theme--light", "theme--dark"}
ToggleThemeTokens == toggle \cap {"theme__switch--light", "theme__switch--dark"}

\* C1: once init() has completed, and after any number of clicks,
\* CURRENT_THEME is 'light' or 'dark', whatever the item held at startup.
C1_ThemeIsAlwaysATheme ==
    InitCompleted => CURRENT_THEME \in {"light", "dark"}

\* C2: when the item holds the JSON text of a theme v, after init()
\* CURRENT_THEME is v, the body carries theme--v and the toggle control
\* theme__switch--v, and neither carries the token of the other theme.
C2_InitRestoresStoredTheme ==
    \A v \in {"light", "dark"} :
        (last.op = "init" /\ ~last.threw /\ log[Len(log)].read = "\"" \o v \o "\"")
        => /\ CURRENT_THEME = v
           /\ BodyThemeTokens = {"theme--" \o v}
           /\ ToggleThemeTokens = {"theme__switch--" \o v}

\* C2 witness: init() read "dark" and the body shows the dark token alone.
C2_Witness ==
    /\ last.op = "init" /\ ~last.threw
    /\ log[Len(log)].read = "\"dark\""
    /\ CURRENT_THEME = "dark"
    /\ "theme--dark" \in body
    /\ "theme--light" \notin body

\* C3: when the item is absent or holds a parseable value that is no theme,
\* init() does not throw and leaves CURRENT_THEME = 'light'.
C3_InvalidItemYieldsLight ==
    (last.op = "init" /\ storeMode # "unavailable"
        /\ log[Len(log)].read \in {NoItem, "\"blue\""})
    => (~last.threw /\ CURRENT_THEME = "light")

\* C4: after a fresh page load with no stored item, once init() has completed
\* the body carries theme--light and the toggle control theme__switch--light.
C4_DefaultThemeIsApplied ==
    (last.op = "init" /\ ~last.threw /\ inits = 1 /\ log[1].read = NoItem)
    => ("theme--light" \in body /\ "theme__switch--light" \in toggle)

\* C5: every run of the click listener sets CURRENT_THEME to a member of
\* {light, dark} other than its value before the run - dark from light,
\* light from dark - whatever the item holds at that moment.
C5_ToggleSelectsOtherTheme ==
    \A i \in 2..Len(log) :
        log[i].op = "toggle"
        => /\ log[i].theme \in {"light", "dark"} \ {log[i - 1].theme}
           /\ log[i - 1].theme = "light" => log[i].theme = "dark"
           /\ log[i - 1].theme = "dark" => log[i].theme = "light"

\* C5 witness: a click took dark to light while the item, changed by another
\* party on a store whose writes succeed, did not hold "dark".
C5_Witness ==
    /\ last.op = "toggle" /\ last.stale /\ storeMode = "ok"
    /\ Len(log) >= 2
    /\ log[Len(log) - 1].theme = "dark"
    /\ CURRENT_THEME = "light"

\* C6: when CURRENT_THEME is a theme t, two runs of the click listener in
\* succession return CURRENT_THEME to t, and leave the body and the toggle
\* control with the tokens of t.
C6_TwoTogglesReturn ==
    \A i \in 1..(Len(log) - 2) :
        (log[i].theme \in {"light", "dark"}
            /\ log[i + 1].op = "toggle" /\ log[i + 2].op = "toggle")
        => /\ log[i + 2].theme = log[i].theme
           /\ (i + 2 = Len(log))
              => /\ CURRENT_THEME = log[i].theme
                 /\ BodyThemeTokens = {"theme--" \o log[i].theme}
                 /\ ToggleThemeTokens = {"theme__switch--" \o log[i].theme}

\* C6 witness: two clicks from dark are back at dark.
C6_Witness ==
    /\ Len(log) >= 3
    /\ log[Len(log) - 2].theme = "dark"
    /\ log[Len(log) - 1].op = "toggle" /\ log[Len(log) - 1].theme = "light"
    /\ log[Len(log)].op = "toggle"
    /\ CURRENT_THEME = "dark"

\* C7: after one init() and n clicks, CURRENT_THEME is the theme init()
\* selected (the stored theme when the item holds one, otherwise 'light')
\* when n is even, and the other theme when n is odd.
C7_ParityOfClicks ==
    (inits = 1 /\ Len(log) >= 1 /\ log[1].op = "init" /\ ~log[1].threw)
    => LET selected == IF log[1].read = "\"dark\"" THEN "dark" ELSE "light"
       IN  CURRENT_THEME = IF clicks % 2 = 0 THEN selected ELSE Other(selected)

\* C8: after every run of the click listener the body carries exactly the
\* token theme--CURRENT_THEME and the toggle control exactly
\* theme__switch--CURRENT_THEME.
C8_ClassesAgreeAfterToggle ==
    last.op = "toggle"
    => /\ CURRENT_THEME \in {"light", "dark"}
       /\ BodyThemeTokens = {"theme--" \o CURRENT_THEME}
       /\ ToggleThemeTokens = {"theme__switch--" \o CURRENT_THEME}

\* C8 witness: the first click after an init() that left CURRENT_THEME null,
\* on a page served with the dark tokens.
C8_Witness ==
    /\ last.op = "toggle"
    /\ Len(log) = 2 /\ log[1].theme = JSNull
    /\ CURRENT_THEME = "light"
    /\ "theme--light" \in body /\ "theme--dark" \notin body

\* C9: for a theme t and every class list before the call, after
\* applyLayout(t) exactly one theme token is on the body and exactly one on
\* the toggle control, and each is the token of t.
C9_ExactlyOneToken ==
    (last.op = "applyLayout" /\ hasToggle /\ last.arg \in {"light", "dark"})
    => /\ Cardinality(BodyThemeTokens) = 1
       /\ Cardinality(ToggleThemeTokens) = 1
       /\ ("theme--" \o last.arg) \in body
       /\ ("theme__switch--" \o last.arg) \in toggle

\* C9 witness: applyLayout('dark') on a body with both tokens and a toggle
\* control with the light token.
C9_Witness ==
    /\ last.op = "applyLayout" /\ hasToggle /\ last.arg = "dark"
    /\ {"theme--light", "theme--dark"} \subseteq last.body
    /\ "theme__switch--light" \in last.toggle
    /\ "theme__switch--dark" \notin last.toggle
    /\ "theme--dark" \in body

\* C10: applyLayout(x) with x no theme (null, undefined, "blue") throws
\* nothing and leaves the class lists of the body and of the toggle control
\* as they were.
C10_NonThemeIsNoOp ==
    (last.op = "applyLayout" /\ last.arg \notin {"light", "dark"})
    => /\ ~last.threw
       /\ body = last.body
       /\ toggle = last.toggle

\* C10 witness: applyLayout("blue") on a body that carries theme--dark.
C10_Witness ==
    /\ last.op = "applyLayout" /\ last.arg = "blue"
    /\ "theme--dark" \in last.body
    /\ "theme--dark" \in body

\* C11: applyLayout is idempotent: for every theme t and every class list
\* before the first call, a second applyLayout(t) leaves the body and the
\* toggle control with the class lists the first one left.
C11_ApplyLayoutIdempotent ==
    (Len(log) >= 2 /\ last.op = "applyLayout"
        /\ log[Len(log)] \in {"light", "dark"}
        /\ log[Len(log) - 1] = log[Len(log)])
    => (body = last.body /\ toggle = last.toggle)

\* C11 witness: applyLayout('dark') twice, the body carrying theme--dark
\* before and after the second call.
C11_Witness ==
    /\ Len(log) = 2 /\ log[1] = "dark" /\ log[2] = "dark"
    /\ last.op = "applyLayout" /\ hasToggle
    /\ "theme--dark" \in last.body
    /\ "theme--dark" \in body

\* C12: for every theme t, when the store is available and the write
\* succeeds, saveTheme(t) followed by ls.get('theme') returns t.
C12_SaveThenGetRoundTrip ==
    (Len(log) >= 2 /\ last.op = "get"
        /\ log[Len(log) - 1].op = "saveTheme"
        /\ log[Len(log) - 1].arg \in {"light", "dark"}
        /\ log[Len(log) - 1].ok)
    => (~last.threw /\ last.value = log[Len(log) - 1].arg)

\* C12 witness: saveTheme('dark') succeeded, then ls.get('theme') read the
\* item "dark" and returned 'dark'.
C12_Witness ==
    /\ Len(log) = 2 /\ last.op = "get"
    /\ log[1] = [op |-> "saveTheme", arg |-> "dark", ok |-> TRUE]
    /\ last.item = "\"dark\""
    /\ last.value = "dark"

\* C13: when the store throws on the write, saveTheme(t) throws nothing,
\* leaves CURRENT_THEME as it was and leaves the item as it was.
C13_FailedWriteIsContained ==
    (last.op = "saveTheme" /\ last.arg \in {"light", "dark"} /\ ~last.ok)
    => /\ ~last.threw
       /\ CURRENT_THEME = last.theme
       /\ item = last.item

\* C13 witness: saveTheme('dark') failed on a store that holds "light" while
\* CURRENT_THEME is 'dark'.
C13_Witness ==
    /\ last.op = "saveTheme" /\ last.arg = "dark" /\ ~last.ok
    /\ last.ret = "false"
    /\ item = "\"light\""
    /\ CURRENT_THEME = "dark"

\* C15: ls.get('theme') never throws: it returns the stored value when the
\* item holds valid JSON, and null or undefined when the key is absent, the
\* store is unavailable or the item is not valid JSON.
C15_GetNeverThrows ==
    last.op = "get"
    => /\ ~last.threw
       /\ IF storeMode # "unavailable"
             /\ last.item \in {"\"light\"", "\"dark\"", "\"blue\""}
          THEN "\"" \o last.value \o "\"" = last.item
          ELSE last.value \in {JSNull, JSUndefined}

\* What a click shows when every write succeeds, started from the visible
\* state at hand and the item raw.
AllWritesSucceed(raw) ==
    RunListeners([theme |-> CURRENT_THEME, body |-> body, toggle |-> toggle,
                  item |-> raw, log |-> log, last |-> last],
                 listeners, hasToggle, [i \in 1..listeners |-> TRUE])

\* C14: within one page load what a click shows does not depend on the
\* writes: every click, whichever of its writes throw and whatever the item
\* holds, leaves CURRENT_THEME and the class lists of the body and of the
\* toggle control as the same click with every write succeeding does, so two
\* runs of the same clicks from the same state show the same sequence.
C14_VisibleIndependentOfWrites ==
    [][clicks' = clicks + 1
       => \A raw \in RawItems :
            LET shown == AllWritesSucceed(raw)
            IN  <<CURRENT_THEME', body', toggle'>>
                    = <<shown.theme, shown.body, shown.toggle>>]_vars

\* C14 witness: a click whose write threw took the page to dark while the
\* item still holds "light".
C14_Witness ==
    /\ last.op = "toggle" /\ last.ret = "false"
    /\ CURRENT_THEME = "dark"
    /\ "theme--dark" \in body /\ "theme__switch--dark" \in toggle
    /\ item = "\"light\""

\* C16: when the item is not parseable JSON or the store cannot be read,
\* init() completes without throwing and CURRENT_THEME is 'light'.
C16_UnreadableItemYieldsDefault ==
    (last.op = "init" /\ hasToggle
        /\ (storeMode = "unavailable" \/ log[Len(log)].read \in Unparseable))
    => (~last.threw /\ CURRENT_THEME = "light")

\* C17: when the document holds no toggle control, init() is a no-op that
\* throws nothing and CURRENT_THEME stays a theme.
C17_MissingToggleIsNoOp ==
    (last.op = "init" /\ ~hasToggle)
    => (~last.threw /\ CURRENT_THEME \in {"light", "dark"})

\* C18: the choice survives a page load: on a store whose writes succeed,
\* when a page load that saw a click ends with CURRENT_THEME a theme t, the first
\* init() of the next page load ends with CURRENT_THEME = t and the tokens of
\* t, and no other theme token, on the body and the toggle control.
C18_ChoiceSurvivesPageLoad ==
    (last.op = "init" /\ inits = 1 /\ hasToggle /\ storeMode = "ok"
        /\ prev.theme \in {"light", "dark"})
    => /\ ~last.threw
       /\ CURRENT_THEME = prev.theme
       /\ BodyThemeTokens = {"theme--" \o prev.theme}
       /\ ToggleThemeTokens = {"theme__switch--" \o prev.theme}

\* C18 witness: the previous page load ended in dark after a click, and the
\* init() of this one restored dark.
C18_Witness ==
    /\ last.op = "init" /\ inits = 1 /\ storeMode = "ok"
    /\ prev # NoPrev /\ prev.theme = "dark"
    /\ CURRENT_THEME = "dark"
    /\ "theme--dark" \in body

\* C19: on a store whose writes succeed, after every run of the click
\* listener the item holds the JSON text of CURRENT_THEME, and the run wrote
\* it.
C19_ItemFollowsClicks ==
    (last.op = "toggle" /\ storeMode = "ok")
    => /\ item = "\"" \o CURRENT_THEME \o "\""
       /\ last.wrote = item
       /\ last.ret = "true"

\* C19 witness: one click from light on a store that held "light" leaves the
\* item holding "dark".
C19_Witness ==
    /\ last.op = "toggle" /\ storeMode = "ok" /\ ~last.stale
    /\ Len(log) = 2 /\ log[1].theme = "light"
    /\ CURRENT_THEME = "dark"
    /\ item = "\"dark\""

\* C20: whatever the item held at the start, every text init() and the click
\* listener hand to setItem is the JSON string literal "light" or "dark", and
\* a write that succeeds leaves the item holding that text.
C20_OnlyThemesAreWritten ==
    (last.op \in {"init", "toggle"} /\ last.wrote # NoWrite)
    => /\ last.wrote \in {"\"light\"", "\"dark\""}
       /\ last.ret = "true" => item = last.wrote

\* C20 witness: the click after an init() that read "blue" wrote "light".
C20_Witness ==
    /\ last.op = "toggle" /\ last.wrote = "\"light\""
    /\ Len(log) = 2 /\ log[1].read = "\"blue\""
    /\ item = "\"light\""

\* C21: for every theme t, saveTheme(t) returns an indicator of the write:
\* true exactly when setItem succeeded, and then the item holds the JSON text
\* of t; false exactly when the store threw, and then the item is as it was.
C21_SaveThemeReportsTheWrite ==
    (last.op = "saveTheme" /\ last.arg \in {"light", "dark"})
    => /\ last.ret \in {"true", "false"}
       /\ (last.ret = "true") <=> last.ok
       /\ (last.ret = "false") <=> ~last.ok
       /\ last.ok => item = "\"" \o last.arg \o "\""
       /\ ~last.ok => item = last.item

\* C21 witness: on a store that may refuse a write, saveTheme('light')
\* returned false and the item still holds "dark".
C21_Witness ==
    /\ last.op = "saveTheme" /\ last.arg = "light"
    /\ storeMode = "quota" /\ last.ret = "false"
    /\ last.item = "\"dark\"" /\ item = "\"dark\""

\* C22: init() only reads the store: whatever the item holds, init() hands
\* nothing to setItem and leaves the item as it read it.
C22_InitDoesNotWrite ==
    last.op = "init"
    => /\ last.wrote = NoWrite
       /\ last.read # NotRead => item = last.read

\* The first init() of a page load has just run, the toggle control being
\* there.
FirstInitDone == last.op = "init" /\ inits = 1 /\ hasToggle

\* The latest write of the previous page load threw, and the item is as that
\* load left it.
FailedToPersist == prev # NoPrev /\ prev.ret = "false"

\* init() could not read a value out of the store.
FailedToRestore ==
    storeMode = "unavailable" \/ log[Len(log)].read \in Unparseable

\* C23: when the write of the latest click of a page load threw, or the item
\* cannot be read, the init() of the next page load throws nothing and
\* renders the default theme: CURRENT_THEME is 'light', the body carries
\* theme--light alone and the toggle control theme__switch--light alone.
C23_FailureRendersDefault ==
    (FirstInitDone /\ (FailedToPersist \/ FailedToRestore))
    => /\ ~last.threw
       /\ CURRENT_THEME = "light"
       /\ BodyThemeTokens = {"theme--light"}
       /\ ToggleThemeTokens = {"theme__switch--light"}

\* C24: every init() on a page with the toggle control binds one more click
\* listener; a click runs each listener bound so far once, in sequence; and
\* with two listeners bound by two init() that completed, a click leaves
\* CURRENT_THEME and the class lists of the body and of the toggle control as
\* they were before it.
C24_ListenersAccumulate ==
    [][/\ (inits' = inits + 1 /\ hasToggle) => listeners' = listeners + 1
       /\ (clicks' = clicks + 1) => Len(log') = Len(log) + listeners
       /\ (clicks' = clicks + 1 /\ listeners = 2
             /\ \A i \in DOMAIN log : ~log[i].threw)
          => <<CURRENT_THEME', body', toggle'>> = <<CURRENT_THEME, body, toggle>>]_vars

\* C25: a run of the click listener updates CURRENT_THEME, then applies the
\* classes, then attempts the write: when saveTheme is called CURRENT_THEME
\* already holds the new theme and the body and the toggle control already
\* carry its tokens alone, and the text handed to setItem is the JSON text of
\* that CURRENT_THEME.
C25_WriteComesLast ==
    (last.op = "toggle" /\ last.wrote # NoWrite)
    => /\ last.seen.theme = CURRENT_THEME
       /\ last.seen.theme # log[Len(log) - 1].theme
       /\ last.seen.body \cap BodyTokens = {"theme--" \o CURRENT_THEME}
       /\ last.seen.toggle \cap SwitchTokens = {"theme__switch--" \o CURRENT_THEME}
       /\ last.wrote = "\"" \o CURRENT_THEME \o "\""

\* C25 witness: a click from light whose write of "dark" threw; the body
\* carried theme--dark when the write was attempted.
C25_Witness ==
    /\ last.op = "toggle" /\ last.wrote = "\"dark\"" /\ last.ret = "false"
    /\ log[Len(log) - 1].theme = "light"
    /\ "theme--dark" \in last.seen.body
    /\ "theme--light" \notin last.seen.body

\* C26: ls.get returns a stored JSON value that is no theme ("blue") as it
\* is, without validating it, and init() rejects it: after an init() that
\* read such an item CURRENT_THEME is not that value.
C26_InitRejectsNonTheme ==
    (last.op = "init" /\ hasToggle /\ storeMode # "unavailable"
        /\ log[Len(log)].read = "\"blue\"")
    => /\ lsGet(log[Len(log)].read, storeMode) = [threw |-> FALSE, value |-> "blue"]
       /\ CURRENT_THEME # "blue"

\* The entries of the log that read the store.
Reads == {i \in DOMAIN log : log[i].read # NotRead}

\* C27: the store is read by init() alone, once in each call, so once in a
\* page load with its one init(); no run of the click listener reads it, and
\* each run takes CURRENT_THEME from its value before the run, whatever
\* another party has put in the item since init().
C27_StoreIsReadByInitOnly ==
    /\ \A i \in Reads : log[i].op = "init"
    /\ hasToggle => Cardinality(Reads) = inits
    /\ \A i \in 2..Len(log) :
         log[i].op = "toggle"
         => log[i].theme = toggleCurrentTheme(log[i - 1].theme)
    /\ last.op = "toggle"
       => /\ last.read = NotRead
          /\ BodyThemeTokens = {"theme--" \o CURRENT_THEME}
          /\ ToggleThemeTokens = {"theme__switch--" \o CURRENT_THEME}

\* C27 witness: init() restored light, another party changed the item, and
\* the click that followed went to dark all the same.
C27_Witness ==
    /\ inits = 1 /\ Len(log) = 2 /\ Reads = {1}
    /\ log[1].op = "init" /\ log[1].read = "\"light\""
    /\ last.op = "toggle" /\ last.stale
    /\ CURRENT_THEME = "dark"
    /\ "theme--dark" \in body /\ "theme__switch--dark" \in toggle

\* C28: toggleCurrentTheme() returns the first member of THEMES that differs
\* from CURRENT_THEME: every run of the click listener selects 'dark' when
\* CURRENT_THEME is 'light', 'light' when it is 'dark', and 'light' when it
\* holds a value that is no theme (null, 'blue'); it never selects undefined.
C28_ToggleReturnsFirstOther ==
    \A i \in 2..Len(log) :
        log[i].op = "toggle"
        => /\ log[i].theme = IF log[i - 1].theme = "light" THEN "dark" ELSE "light"
           /\ log[i].theme = THEMES[IF log[i - 1].theme = THEMES[1] THEN 2 ELSE 1]
           /\ log[i].theme # JSUndefined

\* C28 witness: init() left CURRENT_THEME = 'blue' and the first run of the
\* click listener selected 'light'.
C28_Witness ==
    /\ Len(log) >= 2
    /\ log[Len(log) - 1].op = "init" /\ log[Len(log) - 1].theme = "blue"
    /\ log[Len(log)].op = "toggle" /\ log[Len(log)].theme = "light"

\* The first init() of this page load threw on its read of the store.
FirstInitFailedOnRead ==
    /\ Len(log) >= 1
    /\ log[1].op = "init" /\ log[1].threw /\ log[1].read # NotRead

\* C29: init() binds the click listener before it reads the store: when the
\* read throws, the listener is bound and CURRENT_THEME is still 'light', and
\* the first click after it sets CURRENT_THEME to 'dark', leaves the body and
\* the toggle control with the dark tokens alone and hands "dark" to setItem.
C29_ListenerBoundBeforeRead ==
    /\ (FirstInitFailedOnRead /\ Len(log) = 1)
       => (listeners = 1 /\ CURRENT_THEME = "light")
    /\ (FirstInitFailedOnRead /\ Len(log) = 2 /\ last.op = "toggle")
       => /\ CURRENT_THEME = "dark"
          /\ BodyThemeTokens = {"theme--dark"}
          /\ ToggleThemeTokens = {"theme__switch--dark"}
          /\ last.wrote = "\"dark\""

\* C29 witness: init() threw on an item that is not JSON, on a page served
\* with the light token on the body; the click that followed went to dark
\* and wrote "dark".
C29_Witness ==
    /\ FirstInitFailedOnRead /\ log[1].read \in Unparseable
    /\ Len(log) = 2 /\ last.op = "toggle" /\ last.ret = "true"
    /\ CURRENT_THEME = "dark"
    /\ item = "\"dark\""
    /\ "theme--dark" \in body

\* C30: on a page served with the body and the toggle control in step, in
\* every state init() and clicks reach the body carries theme--t if and only
\* if the toggle control carries theme__switch--t, and each of the two
\* carries at most one theme token.
C30_ElementsInStep ==
    /\ \A t \in {"light", "dark"} :
         ("theme--" \o t) \in body <=> ("theme__switch--" \o t) \in toggle
    /\ Cardinality(BodyThemeTokens) <= 1
    /\ Cardinality(ToggleThemeTokens) <= 1

\* C30 witness: init() on an absent item left the page as served, and two
\* clicks later both elements carry the dark token.
C30_Witness ==
    /\ inits = 1 /\ clicks = 2 /\ last.op = "toggle"
    /\ log[1].op = "init" /\ log[1].theme = JSNull
    /\ body = {BodyOther, "theme--dark"}
    /\ toggle = {SwitchOther, "theme__switch--dark"}

\* The four class names applyLayout adds and removes.
ThemeTokens ==
    {"theme--light", "theme--dark", "theme__switch--light", "theme__switch--dark"}

\* C31: applyLayout touches the four theme tokens alone: after any init()
\* and any click the body and the toggle control carry, beside theme tokens,
\* the class names they were served with, and neither carries a token of the
\* other element.
C31_OtherClassesUntouched ==
    /\ body \ ThemeTokens = {"page"}
    /\ hasToggle => toggle \ ThemeTokens = {"theme__switch"}
    /\ body \cap {"theme__switch--light", "theme__switch--dark"} = {}
    /\ toggle \cap {"theme--light", "theme--dark"} = {}

\* C31 witness: init() restored dark, a click went back to light, and the
\* other classes are in place beside the light tokens.
C31_Witness ==
    /\ Len(log) = 2 /\ log[1].op = "init" /\ log[1].theme = "dark"
    /\ last.op = "toggle"
    /\ body = {"page", "theme--light"}
    /\ toggle = {"theme__switch", "theme__switch--light"}

\* Every operation of the two pages has returned, and each page has called
\* init() once at most, so that a click is one step.
TabsAtRest ==
    /\ other.thisRun.pc = "idle" /\ other.run.pc = "idle"
    /\ listeners <= 1 /\ other.listeners <= 1

\* The item holds the JSON text of the CURRENT_THEME of the page of the
\* latest click.
ItemFollowsLatestClick ==
    TabsAtRest
    => /\ other.recent = "this" => item = JSONstringify(CURRENT_THEME)
       /\ other.recent = "other" => item = JSONstringify(other.theme)

\* A listener of a click on one page leaves the CURRENT_THEME and the class
\* lists of the other page as they were.
ClickStaysInItsPage ==
    /\ (clicks' # clicks
            \/ (other.thisRun.pc = "click" /\ other'.thisRun # other.thisRun))
       => <<other'.theme, other'.body, other'.toggle>>
              = <<other.theme, other.body, other.toggle>>
    /\ (other'.clicks # other.clicks
            \/ (other.run.pc = "click" /\ other'.run # other.run))
       => <<CURRENT_THEME', body', toggle'>> = <<CURRENT_THEME, body, toggle>>

\* C32: with two pages sharing one store, a click on one page changes neither
\* the CURRENT_THEME nor the classes of the other, and after any interleaving
\* of the steps of the two pages, the writes succeeding, the item holds the
\* CURRENT_THEME of the page clicked most recently.
C32_TwoPagesOneStore ==
    []ItemFollowsLatestClick /\ [][ClickStaysInItsPage]_vars

\* C33: in the App without the store, init() binds one click listener and
\* applies no class; CURRENT_THEME starts at 'light' and, with the one
\* listener of one init(), is 'light' after an even number of clicks and
\* 'dark' after an odd one; after each click the body and the toggle control
\* carry the tokens of CURRENT_THEME alone; and the item stays as it was,
\* whatever it holds.
C33_PlainVariantAlternates ==
    /\ other.present => other.listeners = other.inits
    /\ other.clicks = 0
       => /\ other.theme = "light"
          /\ other.body = other.served.body
          /\ other.toggle = other.served.toggle
    /\ other.listeners = 1
       => other.theme = IF other.clicks % 2 = 0 THEN "light" ELSE "dark"
    /\ other.last = "click"
       => /\ ~other.threw
          /\ other.body \cap BodyTokens = {"theme--" \o other.theme}
          /\ other.toggle \cap SwitchTokens = {"theme__switch--" \o other.theme}
    /\ item = other.store

\* C33 witness: on a page served without theme tokens and a store holding
\* "light", one init() and three clicks leave CURRENT_THEME = 'dark' with the
\* dark tokens.
C33_Witness ==
    /\ other.kind = "plain" /\ other.inits = 1 /\ other.clicks = 3
    /\ other.served.body = {"page"}
    /\ other.theme = "dark"
    /\ other.body = {"page", "theme--dark"}
    /\ other.toggle = {"theme__switch", "theme__switch--dark"}
    /\ item = "\"light\""

\* C34: with no item stored, the App with the store and the App without it,
\* run side by side from one init() through the same clicks, have after
\* every click the same CURRENT_THEME and the same theme tokens on the body
\* and on the toggle control.
C34_VariantsAgreeOnClicks ==
    (inits = 1 /\ other.inits = 1 /\ log[1].op = "init" /\ ~log[1].threw
        /\ log[1].read = NoItem /\ clicks >= 1 /\ other.clicks = clicks)
    => /\ CURRENT_THEME = other.theme
       /\ BodyThemeTokens = other.body \cap BodyTokens
       /\ ToggleThemeTokens = other.toggle \cap SwitchTokens

====
